---- MODULE Spec2Model ----
(***************************************************************************)
(* Model of stremlitchat/yooo.py: a Streamlit chat page that forwards the  *)
(* user's text to a ReAct agent bound to one tool, get_weather.            *)
(*                                                                         *)
(* The script is re-executed top to bottom for every UI event of a         *)
(* session.  pc[s] is the position of session s's script run; the cache of *)
(* st.cache_resource and the two API keys are shared by the whole process. *)
(***************************************************************************)
EXTENDS Naturals, Sequences, FiniteSets, TLC

VARIABLES
    GROQ_API_KEY,          \* module-level value, line 14
    OPENWEATHER_API_KEY,   \* module-level value, line 15
    agentCache,            \* the st.cache_resource entry of load_agent
    constructed,           \* number of ReActAgent(...) constructions so far
    session_state,         \* per session: st.session_state
    pc,                    \* per session: position of the script run
    prompt,                \* per session: value st.chat_input returns in this run
    agent,                 \* per session: the script's variable `agent`
    inputShown,            \* per session: the chat_input widget is on the page
    blocking,              \* per session: the missing-keys error and info are on the page
    banner,                \* per session: text of the st.error banner of this run
    inflight,              \* per session: agent.run handlers not yet completed
    toolCalls,             \* per session: get_weather calls made by the agent run in flight
    outcome,               \* per session: how this run's turn ended
    turns,                 \* per session: number of turns started
    runs,                  \* number of script runs started in the process
    calls,                 \* results of the get_weather calls made, in order
    netRequests            \* number of requests.get calls issued

vars == <<GROQ_API_KEY, OPENWEATHER_API_KEY, agentCache, constructed,
          session_state, pc, prompt, agent, inputShown, blocking, banner,
          inflight, toolCalls, outcome, turns, runs, calls, netRequests>>

appVars == <<agentCache, constructed, session_state, pc, prompt, agent,
             inputShown, blocking, banner, inflight, toolCalls, outcome,
             turns, runs>>

(***************************************************************************)
(* Bounds of the model.                                                    *)
(***************************************************************************)
MaxRuns == 4          \* script runs started, over all sessions
MaxToolCalls == 1     \* get_weather calls the agent makes in one turn
MaxCalls == 2         \* get_weather calls in the stand-alone lookup model

Sessions == {"s1", "s2"}
Prompts == {"weather in London?", "and Paris?"}
Cities == {"London", "Paris"}
Answers == {"It is 15 C and cloudy."}

None == "<None>"
KeyValues == {None, "", "secret"}

\* Python truthiness of an Optional[str]: None and "" are falsy.
Truthy(v) == v # None /\ v # ""

(***************************************************************************)
(* get_weather, lines 18-43.                                               *)
(***************************************************************************)
\* What requests.get(...) followed by raise_for_status() can do.
Transports == {"ok", "ConnectionError", "Timeout", "HTTPError"}

\* requests.exceptions.RequestException and its subclasses (line 41).
RequestException == {"ConnectionError", "Timeout", "HTTPError"}

KeyNotSetError == [error |-> "OpenWeatherMap API key is not set."]

FetchError(city) ==
    [error |-> "Could not fetch weather data for " \o city
               \o ". Please check the city name."]

\* response.json() of a successful call, returned verbatim.
Json(city) == [name |-> city, temp |-> "15", description |-> "cloudy"]

get_weather_unguarded(key, city, transport) ==
    IF transport = "ok"
    THEN [result |-> Json(city), requested |-> TRUE, warned |-> FALSE,
          raised |-> FALSE]
    ELSE [result |-> FetchError(city), requested |-> TRUE, warned |-> TRUE,
          raised |-> FALSE]

get_weather_narrow_except(key, city, transport) ==
    IF ~Truthy(key)
    THEN [result |-> KeyNotSetError, requested |-> FALSE, warned |-> FALSE,
          raised |-> FALSE]
    ELSE IF transport = "ok"
    THEN [result |-> Json(city), requested |-> TRUE, warned |-> FALSE,
          raised |-> FALSE]
    ELSE IF transport = "HTTPError"
    THEN [result |-> FetchError(city), requested |-> TRUE, warned |-> TRUE,
          raised |-> FALSE]
    ELSE [result |-> [error |-> transport], requested |-> TRUE,
          warned |-> FALSE, raised |-> TRUE]

\* result: the returned dict; requested: requests.get was called;
\* warned: st.error was called; raised: an exception left the function.
get_weather(key, city, transport) ==
    IF ~Truthy(key)
    THEN [result |-> KeyNotSetError, requested |-> FALSE, warned |-> FALSE,
          raised |-> FALSE]
    ELSE IF transport = "ok"
    THEN [result |-> Json(city), requested |-> TRUE, warned |-> FALSE,
          raised |-> FALSE]
    ELSE IF transport \in RequestException
    THEN [result |-> FetchError(city), requested |-> TRUE, warned |-> TRUE,
          raised |-> FALSE]
    ELSE [result |-> [error |-> transport], requested |-> TRUE,
          warned |-> FALSE, raised |-> TRUE]

\* One call of get_weather as the process sees it.
CallRecord(city, transport) ==
    [city |-> city, transport |-> transport,
     keySet |-> Truthy(OPENWEATHER_API_KEY),
     ret |-> get_weather(OPENWEATHER_API_KEY, city, transport)]

(***************************************************************************)
(* load_agent under @st.cache_resource, lines 48-70.                       *)
(***************************************************************************)
Miss == [hit |-> FALSE, value |-> None]

\* The function body: None without the key, else a new ReActAgent.
load_agent_body(n) ==
    IF ~Truthy(GROQ_API_KEY) THEN [value |-> None, built |-> 0]
    ELSE [value |-> "agent#" \o ToString(n + 1), built |-> 1]

load_agent_uncached(cache, n) ==
    [value |-> load_agent_body(n).value,
     cache |-> [hit |-> TRUE, value |-> load_agent_body(n).value],
     built |-> load_agent_body(n).built]

\* The cached call: the body runs on a miss only.
load_agent(cache, n) ==
    IF cache.hit
    THEN [value |-> cache.value, cache |-> cache, built |-> 0]
    ELSE [value |-> load_agent_body(n).value,
          cache |-> [hit |-> TRUE, value |-> load_agent_body(n).value],
          built |-> load_agent_body(n).built]

(***************************************************************************)
(* Messages and the turn handler's texts.                                  *)
(***************************************************************************)
Msg(role, content) == [role |-> role, content |-> content]

Greeting == Msg("assistant", "Hi! How can I help you with the weather today?")

NoState == [initialised |-> FALSE, messages |-> <<>>]

\* Faults an agent invocation can raise; all are subclasses of Exception.
Faults == {[kind |-> "tool", reason |-> "tool failed"],
           [kind |-> "llm", reason |-> "rate limit"],
           [kind |-> "context", reason |-> "bad context"]}

\* `except Exception`, line 122.
ExceptOnlyLlm(f) == f.kind = "llm"

ExceptMatches(f) == f.kind \in {"tool", "llm", "context"}

\* line 123
error_message(e) == "An error occurred: " \o e

\* line 125
SorryBanner(e) == Msg("assistant", error_message(e))

SorryMessage(e) == Msg("assistant", "Sorry, I ran into a problem: " \o e)

\* lines 95: the startup gate's condition
KeysMissingBoth == ~Truthy(GROQ_API_KEY) /\ ~Truthy(OPENWEATHER_API_KEY)

KeysMissing == ~Truthy(GROQ_API_KEY) \/ ~Truthy(OPENWEATHER_API_KEY)

\* lines 83-84
InitAlways(ss) == [initialised |-> TRUE, messages |-> <<Greeting>>]

InitSessionState(ss) ==
    IF ~ss.initialised
    THEN [initialised |-> TRUE, messages |-> <<Greeting>>]
    ELSE ss

\* line 103
AppendUserLate(ss, p) == ss

AppendUser(ss, p) ==
    [ss EXCEPT !.messages = Append(@, Msg("user", p))]

\* line 121
AppendAnswer(ss, text) ==
    [ss EXCEPT !.messages = Append(@, Msg("assistant", text))]

\* line 125
AppendFailureDropped(ss, e) == ss

AppendFailure(ss, e) ==
    [ss EXCEPT !.messages = Append(@, SorryMessage(e))]

(***************************************************************************)
(* Initial state: the process has started, no session has run the script.  *)
(***************************************************************************)
Init ==
    /\ GROQ_API_KEY \in KeyValues
    /\ OPENWEATHER_API_KEY \in KeyValues
    /\ agentCache = Miss
    /\ constructed = 0
    /\ session_state = [s \in Sessions |-> NoState]
    /\ pc = [s \in Sessions |-> "idle"]
    /\ prompt = [s \in Sessions |-> None]
    /\ agent = [s \in Sessions |-> None]
    /\ inputShown = [s \in Sessions |-> FALSE]
    /\ blocking = [s \in Sessions |-> FALSE]
    /\ banner = [s \in Sessions |-> None]
    /\ inflight = [s \in Sessions |-> 0]
    /\ toolCalls = [s \in Sessions |-> 0]
    /\ outcome = [s \in Sessions |-> "none"]
    /\ turns = [s \in Sessions |-> 0]
    /\ runs = 0
    /\ calls = <<>>
    /\ netRequests = 0

keys == <<GROQ_API_KEY, OPENWEATHER_API_KEY>>

\* A script run starts: the page is cleared and the script begins at line 1.
StartRun(s, p) ==
    /\ pc[s] = "idle"
    /\ runs < MaxRuns
    /\ runs' = runs + 1
    /\ pc' = [pc EXCEPT ![s] = "init"]
    /\ prompt' = [prompt EXCEPT ![s] = p]
    /\ inputShown' = [inputShown EXCEPT ![s] = FALSE]
    /\ blocking' = [blocking EXCEPT ![s] = FALSE]
    /\ banner' = [banner EXCEPT ![s] = None]
    /\ outcome' = [outcome EXCEPT ![s] = "none"]
    /\ toolCalls' = [toolCalls EXCEPT ![s] = 0]

\* The browser loads or reloads the page: a run in which chat_input gives None.
Visit(s) ==
    /\ StartRun(s, None)
    /\ UNCHANGED <<keys, agentCache, constructed, session_state, agent,
                   inflight, turns, calls, netRequests>>

\* The user submits text in the chat_input widget: a run in which it gives p.
Submit(s, p) ==
    /\ inputShown[s]
    /\ StartRun(s, p)
    /\ turns' = [turns EXCEPT ![s] = @ + 1]
    /\ UNCHANGED <<keys, agentCache, constructed, session_state, agent,
                   inflight, calls, netRequests>>

\* lines 83-89: initialise the history if absent, then render it.
InitMessages(s) ==
    /\ pc[s] = "init"
    /\ session_state' = [session_state EXCEPT ![s] = InitSessionState(@)]
    /\ pc' = [pc EXCEPT ![s] = "load"]
    /\ UNCHANGED <<keys, agentCache, constructed, prompt, agent, inputShown,
                   blocking, banner, inflight, toolCalls, outcome, turns,
                   runs, calls, netRequests>>

\* line 92: agent = load_agent()
LoadAgent(s) ==
    /\ pc[s] = "load"
    /\ LET r == load_agent(agentCache, constructed) IN
         /\ agent' = [agent EXCEPT ![s] = r.value]
         /\ agentCache' = r.cache
         /\ constructed' = constructed + r.built
    /\ pc' = [pc EXCEPT ![s] = "gate"]
    /\ UNCHANGED <<keys, session_state, prompt, inputShown, blocking, banner,
                   inflight, toolCalls, outcome, turns, runs, calls,
                   netRequests>>

\* lines 95-98: st.error, st.info and st.stop() when a key is missing.
Gate(s) ==
    /\ pc[s] = "gate"
    /\ IF KeysMissing
       THEN /\ blocking' = [blocking EXCEPT ![s] = TRUE]
            /\ pc' = [pc EXCEPT ![s] = "idle"]
       ELSE /\ pc' = [pc EXCEPT ![s] = "input"]
            /\ UNCHANGED blocking
    /\ UNCHANGED <<keys, agentCache, constructed, session_state, prompt,
                   agent, inputShown, banner, inflight, toolCalls, outcome,
                   turns, runs, calls, netRequests>>

\* lines 101-105: the widget is rendered; with a prompt the user message is
\* appended and shown, without one the script ends.
ChatInput(s) ==
    /\ pc[s] = "input"
    /\ inputShown' = [inputShown EXCEPT ![s] = TRUE]
    /\ IF prompt[s] = None
       THEN /\ pc' = [pc EXCEPT ![s] = "idle"]
            /\ UNCHANGED session_state
       ELSE /\ session_state' =
                  [session_state EXCEPT ![s] = AppendUser(@, prompt[s])]
            /\ pc' = [pc EXCEPT ![s] = "try"]
    /\ UNCHANGED <<keys, agentCache, constructed, prompt, agent, blocking,
                   banner, inflight, toolCalls, outcome, turns, runs, calls,
                   netRequests>>

InvokeNoWait(s) ==
    /\ pc[s] = "try"
    /\ inflight' = [inflight EXCEPT ![s] = @ + 1]
    /\ pc' = [pc EXCEPT ![s] = "idle"]
    /\ UNCHANGED <<keys, agentCache, constructed, session_state, prompt,
                   agent, inputShown, blocking, banner, toolCalls, outcome,
                   turns, runs, calls, netRequests>>

\* lines 112-118: Context(agent) and agent.run(query, ctx=ctx) succeed in
\* starting; asyncio.run blocks the script until the handler completes.
Invoke(s) ==
    /\ pc[s] = "try"
    /\ inflight' = [inflight EXCEPT ![s] = @ + 1]
    /\ pc' = [pc EXCEPT ![s] = "await"]
    /\ UNCHANGED <<keys, agentCache, constructed, session_state, prompt,
                   agent, inputShown, blocking, banner, toolCalls, outcome,
                   turns, runs, calls, netRequests>>

\* The running agent calls its tool, get_weather(city).
ToolCall(s, city, transport) ==
    /\ pc[s] = "await"
    /\ toolCalls[s] < MaxToolCalls
    /\ toolCalls' = [toolCalls EXCEPT ![s] = @ + 1]
    /\ LET r == get_weather(OPENWEATHER_API_KEY, city, transport) IN
         netRequests' = netRequests + (IF r.requested THEN 1 ELSE 0)
    /\ UNCHANGED <<keys, agentCache, constructed, session_state, pc, prompt,
                   agent, inputShown, blocking, banner, inflight, outcome,
                   turns, runs, calls>>

\* lines 115-121: the handler completes with a response; it is shown and
\* appended, and the script ends.
Return(s, text) ==
    /\ pc[s] = "await"
    /\ inflight' = [inflight EXCEPT ![s] = @ - 1]
    /\ session_state' = [session_state EXCEPT ![s] = AppendAnswer(@, text)]
    /\ outcome' = [outcome EXCEPT ![s] = "Rendered"]
    /\ pc' = [pc EXCEPT ![s] = "idle"]
    /\ toolCalls' = [toolCalls EXCEPT ![s] = 0]
    /\ UNCHANGED <<keys, agentCache, constructed, prompt, agent, inputShown,
                   blocking, banner, turns, runs, calls, netRequests>>

\* lines 122-125: an exception leaves asyncio.run(get_response(prompt)):
\* a context error before the run is started, a tool or LLM fault after.
Raise(s, f) ==
    /\ \/ pc[s] = "try" /\ f.kind = "context" /\ UNCHANGED inflight
       \/ /\ pc[s] = "await" /\ f.kind # "context"
          /\ inflight' = [inflight EXCEPT ![s] = @ - 1]
    /\ IF ExceptMatches(f)
       THEN /\ banner' = [banner EXCEPT ![s] = error_message(f.reason)]
            /\ session_state' =
                  [session_state EXCEPT ![s] = AppendFailure(@, f.reason)]
            /\ outcome' = [outcome EXCEPT ![s] = "Failed"]
            /\ pc' = [pc EXCEPT ![s] = "idle"]
       ELSE /\ pc' = [pc EXCEPT ![s] = "crashed"]
            /\ UNCHANGED <<banner, session_state, outcome>>
    /\ toolCalls' = [toolCalls EXCEPT ![s] = 0]
    /\ UNCHANGED <<keys, agentCache, constructed, prompt, agent, inputShown,
                   blocking, turns, runs, calls, netRequests>>

Next ==
    \/ \E s \in Sessions : Visit(s)
    \/ \E s \in Sessions, p \in Prompts : Submit(s, p)
    \/ \E s \in Sessions : InitMessages(s)
    \/ \E s \in Sessions : LoadAgent(s)
    \/ \E s \in Sessions : Gate(s)
    \/ \E s \in Sessions : ChatInput(s)
    \/ \E s \in Sessions : Invoke(s)
    \/ \E s \in Sessions, c \in Cities, t \in Transports : ToolCall(s, c, t)
    \/ \E s \in Sessions, a \in Answers : Return(s, a)
    \/ \E s \in Sessions, f \in Faults : Raise(s, f)

Spec == Init /\ [][Next]_vars

\* The script of a started run always proceeds, and an agent invocation
\* returns or raises.
Progress(s) ==
    \/ InitMessages(s) \/ LoadAgent(s) \/ Gate(s) \/ ChatInput(s)
    \/ Invoke(s)
    \/ \E a \in Answers : Return(s, a)
    \/ \E f \in Faults : Raise(s, f)

LiveSpec == Spec /\ \A s \in Sessions : WF_vars(Progress(s))

(***************************************************************************)
(* The stand-alone model of get_weather: any key, any city, any transport. *)
(***************************************************************************)
Lookup(city, transport) ==
    /\ Len(calls) < MaxCalls
    /\ calls' = Append(calls, CallRecord(city, transport))
    /\ netRequests' = netRequests +
          (IF get_weather(OPENWEATHER_API_KEY, city, transport).requested
           THEN 1 ELSE 0)
    /\ UNCHANGED <<keys, appVars>>

LookupNext == \E c \in Cities, t \in Transports : Lookup(c, t)

LookupSpec == Init /\ [][LookupNext]_vars

(***************************************************************************)
(* Properties.                                                             *)
(***************************************************************************)
Messages(s) == session_state[s].messages

IsPrefix(a, b) == Len(a) <= Len(b) /\ SubSeq(b, 1, Len(a)) = a

HasUserMessage(s) ==
    \E i \in 1..Len(Messages(s)) : Messages(s)[i].role = "user"

\* C1: when either key is absent (None or empty), no session ever has a user
\* message in its history, a started turn, an agent invocation or even the
\* chat input widget, and every run that has ended shows the blocking error.
C1_GateBlocksInput ==
    (~Truthy(GROQ_API_KEY) \/ ~Truthy(OPENWEATHER_API_KEY)) =>
        \A s \in Sessions :
            /\ ~HasUserMessage(s)
            /\ turns[s] = 0
            /\ inflight[s] = 0
            /\ ~inputShown[s]
            /\ pc[s] \notin {"input", "try", "await"}
            /\ (pc[s] = "idle" /\ session_state[s].initialised) => blocking[s]

C1_Witness ==
    /\ Truthy(GROQ_API_KEY) /\ ~Truthy(OPENWEATHER_API_KEY)
    /\ \A s \in Sessions : pc[s] = "idle" /\ blocking[s]
    /\ runs >= 3

\* C2: whenever the agent invocation raises a fault f, the step that handles
\* it does not crash the run, appends the assistant message
\* "Sorry, I ran into a problem: <reason of f>" and shows an error banner.
C2_FaultBecomesApology ==
    [][\A s \in Sessions : \A f \in Faults :
         Raise(s, f) =>
            /\ pc'[s] = "idle"
            /\ Messages(s)' = Append(Messages(s),
                 [role |-> "assistant",
                  content |-> "Sorry, I ran into a problem: " \o f.reason])
            /\ banner'[s] = "An error occurred: " \o f.reason]_vars

C2_Witness ==
    \E s \in Sessions :
        /\ outcome[s] = "Failed"
        /\ banner[s] = "An error occurred: rate limit"
        /\ Messages(s)[Len(Messages(s))].content =
              "Sorry, I ran into a problem: rate limit"

\* C3: between runs the history of a session holds the greeting plus exactly
\* two messages per turn, user then assistant, and after a turn that ended
\* Rendered or Failed the last two are the user's literal text and an
\* assistant message.
C3_TurnGrowsByTwo ==
    \A s \in Sessions :
        (pc[s] = "idle" /\ session_state[s].initialised) =>
            /\ Len(Messages(s)) = 1 + 2 * turns[s]
            /\ \A k \in 1..turns[s] :
                  /\ Messages(s)[2 * k].role = "user"
                  /\ Messages(s)[2 * k + 1].role = "assistant"
            /\ outcome[s] \in {"Rendered", "Failed"} =>
                  Messages(s)[2 * turns[s]] =
                      [role |-> "user", content |-> prompt[s]]

C3_Witness ==
    \E s \in Sessions :
        /\ pc[s] = "idle" /\ turns[s] = 2 /\ outcome[s] = "Failed"
        /\ Len(Messages(s)) = 5
        /\ Messages(s)[3].content # Messages(s)[5].content

\* C4: while a turn is about to invoke the agent or is waiting for it, the
\* user's message is already the last message of the history, no earlier
\* invocation of the session is in flight before the call starts, and the
\* message is still there, just before the apology, after a failed turn.
C4_UserMessageFirst ==
    \A s \in Sessions :
        /\ pc[s] \in {"try", "await"} =>
              /\ Len(Messages(s)) >= 2
              /\ Messages(s)[Len(Messages(s))] =
                    [role |-> "user", content |-> prompt[s]]
        /\ pc[s] = "try" => inflight[s] = 0 /\ toolCalls[s] = 0
        /\ outcome[s] = "Failed" =>
              /\ Len(Messages(s)) >= 3
              /\ Messages(s)[Len(Messages(s)) - 1] =
                    [role |-> "user", content |-> prompt[s]]

C4_Witness ==
    \E s \in Sessions :
        /\ outcome[s] = "Failed" /\ turns[s] = 1
        /\ Messages(s)[2] = [role |-> "user", content |-> "and Paris?"]
        /\ netRequests = 1

\* C5: every get_weather call made with the key set whose transport fails
\* (an exception of requests.get or a non-success status) returns the error
\* dict naming the city and lets no exception out.
C5_TransportFailureIsResult ==
    \A i \in 1..Len(calls) :
        (calls[i].keySet /\ calls[i].transport # "ok") =>
            /\ ~calls[i].ret.raised
            /\ calls[i].ret.result =
                  [error |-> "Could not fetch weather data for "
                             \o calls[i].city
                             \o ". Please check the city name."]

C5_Witness ==
    /\ Len(calls) = 2
    /\ calls[1].keySet
    /\ calls[1].transport = "ConnectionError" /\ calls[1].city = "London"
    /\ calls[2].transport = "HTTPError" /\ calls[2].city = "Paris"
    /\ calls[1].ret.result # calls[2].ret.result

\* C6: every get_weather call made without the weather key returns an error
\* dict and issues no request, so the process has sent none.
C6_NoKeyNoRequest ==
    ~Truthy(OPENWEATHER_API_KEY) =>
        /\ netRequests = 0
        /\ \A i \in 1..Len(calls) :
              /\ DOMAIN calls[i].ret.result = {"error"}
              /\ ~calls[i].ret.requested
              /\ ~calls[i].ret.raised

C6_Witness ==
    /\ OPENWEATHER_API_KEY = ""
    /\ Len(calls) = 2
    /\ calls[1].transport = "ok" /\ calls[2].transport = "Timeout"
    /\ netRequests = 0

\* C7: the agent is constructed at most once in the process, and every
\* session that obtained an agent holds the one cached instance.
C7_AgentMemoized ==
    /\ constructed <= 1
    /\ \A s \in Sessions :
          agent[s] # None => agentCache.hit /\ agent[s] = agentCache.value
    /\ \A s, t \in Sessions :
          (agent[s] # None /\ agent[t] # None) => agent[s] = agent[t]
    /\ \A s \in Sessions :
          (Truthy(GROQ_API_KEY) /\ pc[s] \in {"gate", "input", "try", "await"})
              => agent[s] # None

C7_Witness ==
    /\ constructed = 1
    /\ \A s \in Sessions : agent[s] = "agent#1" /\ pc[s] = "gate"
    /\ runs >= 3

C9_AppendOnly ==
    /\ [](\A s \in Sessions :
             session_state[s].initialised =>
                /\ Len(Messages(s)) >= 1
                /\ Messages(s)[1] =
                      [role |-> "assistant",
                       content |->
                         "Hi! How can I help you with the weather today?"])
    /\ [][\A s \in Sessions :
             session_state[s].initialised =>
                /\ session_state'[s].initialised
                /\ IsPrefix(Messages(s), Messages(s)')]_vars

C9_Witness ==
    \E s \in Sessions :
        /\ Len(Messages(s)) = 3
        /\ pc[s] = "load"
        /\ turns[s] = 1
        /\ prompt[s] = None

\* C10: a turn that is waiting for its response eventually ends Rendered or
\* Failed with the session idle again and both messages of the turn in the
\* history.
C10_TurnCompletes ==
    \A s \in Sessions :
        (pc[s] \in {"try", "await"})
            ~> (/\ pc[s] = "idle"
                /\ outcome[s] \in {"Rendered", "Failed"}
                /\ Len(Messages(s)) = 1 + 2 * turns[s]
                /\ Messages(s)[2 * turns[s]] =
                      [role |-> "user", content |-> prompt[s]]
                /\ Messages(s)[2 * turns[s] + 1].role = "assistant")

C10_Witness ==
    \E s \in Sessions :
        /\ pc[s] = "init" /\ turns[s] = 2 /\ prompt[s] # None
        /\ Len(Messages(s)) = 3
        /\ Messages(s)[3].content = "Sorry, I ran into a problem: bad context"

====
